---- MODULE Spec2Model ----
(***************************************************************************)
(* Model of the keyboard-to-controller mapper: the DeviceMapper (registered *)
(* controllers, shared running flag, mapped_keys), the worker thread that   *)
(* start_mapping spawns (open, snapshot, grab, dispatch loop, ungrab), the  *)
(* signal-bridge thread, and the physical device with its exclusive grab.   *)
(* Spec drives the mapper through its public API in any order; MainSpec     *)
(* drives it as main's menu loop does, with the interactive binding and the *)
(* capture thread of capture_key.                                           *)
(***************************************************************************)
EXTENDS Integers, Sequences, FiniteSets, TLC

(* ------------------------------ bounds -------------------------------- *)
\* inputs of one run, counted together: the calls the control thread makes on
\* the DeviceMapper (create, edit, start, stop), the raw events the physical
\* keyboard produces, and the termination signals delivered to the process
MaxInputs == 4

\* controllers main's menu creates in one run (main.rs, option 1)
MaxControllers == 2

(* ------------------------------ catalog ------------------------------- *)
\* controller.rs: the 15 buttons a VirtualController exposes
ButtonCatalog ==
    { "BTN_SOUTH", "BTN_EAST", "BTN_NORTH", "BTN_WEST", "BTN_TL", "BTN_TR",
      "BTN_SELECT", "BTN_START", "BTN_MODE", "BTN_THUMBL", "BTN_THUMBR",
      "BTN_DPAD_UP", "BTN_DPAD_DOWN", "BTN_DPAD_LEFT", "BTN_DPAD_RIGHT" }

\* controller.rs: get_available_button_mappings: the buttons in the order in
\* which the interactive binding prompts for them
ButtonPrompts ==
    << "BTN_SOUTH", "BTN_EAST", "BTN_NORTH", "BTN_WEST", "BTN_TL", "BTN_TR",
       "BTN_SELECT", "BTN_START", "BTN_MODE", "BTN_THUMBL", "BTN_THUMBR",
       "BTN_DPAD_UP", "BTN_DPAD_DOWN", "BTN_DPAD_LEFT", "BTN_DPAD_RIGHT" >>

\* controller.rs: HashMap::new()
EmptyMapping == [k \in {} |-> "BTN_SOUTH"]

\* MapInsert keeping the entry a key already has (entry().or_insert())
MapInsert_KeepFirst(m, k, b) ==
    [x \in (DOMAIN m) \cup {k} |-> IF x \in DOMAIN m THEN m[x] ELSE b]

\* HashMap::insert: one target per source key, a later insert overwrites
MapInsert(m, k, b) ==
    [x \in (DOMAIN m) \cup {k} |-> IF x = k THEN b ELSE m[x]]

\* controller.rs: apply_default_mapping replaces the table by these 17 entries
DefaultMapping ==
    [k \in { "KEY_W", "KEY_S", "KEY_A", "KEY_D", "KEY_UP", "KEY_DOWN",
             "KEY_LEFT", "KEY_RIGHT", "KEY_J", "KEY_K", "KEY_U", "KEY_I",
             "KEY_Q", "KEY_E", "KEY_TAB", "KEY_ENTER", "KEY_SPACE" } |->
        CASE k = "KEY_W" -> "BTN_DPAD_UP"
          [] k = "KEY_S" -> "BTN_DPAD_DOWN"
          [] k = "KEY_A" -> "BTN_DPAD_LEFT"
          [] k = "KEY_D" -> "BTN_DPAD_RIGHT"
          [] k = "KEY_UP" -> "BTN_DPAD_UP"
          [] k = "KEY_DOWN" -> "BTN_DPAD_DOWN"
          [] k = "KEY_LEFT" -> "BTN_DPAD_LEFT"
          [] k = "KEY_RIGHT" -> "BTN_DPAD_RIGHT"
          [] k = "KEY_J" -> "BTN_SOUTH"
          [] k = "KEY_K" -> "BTN_EAST"
          [] k = "KEY_U" -> "BTN_NORTH"
          [] k = "KEY_I" -> "BTN_WEST"
          [] k = "KEY_Q" -> "BTN_TL"
          [] k = "KEY_E" -> "BTN_TR"
          [] k = "KEY_TAB" -> "BTN_SELECT"
          [] k = "KEY_ENTER" -> "BTN_START"
          [] k = "KEY_SPACE" -> "BTN_MODE"]

(* ------------------------- bounded input sets -------------------------- *)
\* key codes the physical device produces in the model: one key of the
\* default table and one key outside it
PhysKeys == { "KEY_W", "KEY_Z" }

\* targets offered to a manual binding (a subset of the catalog)
BindButtons == { "BTN_SOUTH" }

\* the tables a manual binding can end with: every captured key bound to a
\* button of the catalog (ui.rs: map_controller_buttons)
ManualMappings ==
    UNION { [ks -> BindButtons] : ks \in (SUBSET PhysKeys) \ {{}} }

\* raw events: (event-type, code, value), value 0 release, 1 press, 2 repeat
KeyEvents == [type : {"KEY"}, code : PhysKeys, value : {0, 1, 2}]
SynEvent == [type |-> "SYN", code |-> "SYN_REPORT", value |-> 0]
PhysEvents == KeyEvents \cup {SynEvent}

\* a start_mapping call needs a controller first: fewer workers than calls
Sessions == 1..MaxInputs

VARIABLES
    controllers,   \* DeviceMapper.controllers: key_mapping of each registered controller
    running,       \* DeviceMapper.running (Arc<Mutex<bool>>)
    mapped_keys,   \* DeviceMapper.mapped_keys
    ninputs,       \* inputs so far: control calls, raw events, signals
    ctl,           \* control thread: "idle" (between calls; in main: at the menu),
                   \* "stopping" inside stop_mapping's sleep; main also: "bind",
                   \* "capture", "wait", "join", "exit"
    nsessions,     \* number of workers spawned by start_mapping
    lastStart,     \* outcome of the latest start_mapping call
    stopRet,       \* sessions after whose start a stop_mapping call has returned
    startKeys,     \* per session: mapped_keys as it was when start_mapping ran
    wpc,           \* worker position
    settings,      \* controller_settings moved into the worker closure
    wmapped,       \* the worker's clone of mapped_keys
    batch,         \* events of the current fetch_events batch not yet dispatched
    fetched,       \* every event the worker has taken from the device
    emitted,       \* every emission of the worker, in order, over all its sinks
    result,        \* the worker's result, which join() hands to the joiner
    grabs,         \* successful grab() calls of the worker
    ungrabs,       \* ungrab() calls of the worker
    grabbedBy,     \* which worker's handle holds the exclusive grab (0: none)
    devq,          \* per open handle: events queued by the kernel, not yet read
    bpc,           \* signal-bridge thread position
    sigchan,       \* messages in the bridge's bounded(1) channel
    binding,       \* key_mapping of the controller main is binding by hand
    prompt,        \* index of the button prompt in progress (0: no binding begun)
    lastPrompt,    \* per key: the last prompt for which capture_key returned it
    cpc,           \* capture thread position
    cq,            \* capture handle: events queued by the kernel, not yet read
    cskip,         \* events the capture thread has read and skipped in this call
    ckey,          \* capture_key's bounded(1) channel: <<>> or <<key>>
    cres           \* the capture thread's result

vars == << controllers, running, mapped_keys, ninputs, ctl, nsessions,
           lastStart, stopRet, startKeys, wpc, settings, wmapped, batch, fetched, emitted,
           result, grabs, ungrabs, grabbedBy, devq, bpc,
           sigchan, binding, prompt, lastPrompt, cpc, cq, cskip, ckey, cres >>

ctlVars == << controllers, running, mapped_keys, ninputs, ctl,
              nsessions, lastStart, stopRet, startKeys >>
wrkVars == << wpc, settings, wmapped, batch, fetched, emitted, result, grabs, ungrabs >>
devVars == << grabbedBy, devq >>
sigVars == << bpc, sigchan >>
capVars == << binding, prompt, lastPrompt, cpc, cq, cskip, ckey, cres >>

(* ------------------------------- Init ---------------------------------- *)
\* mapping.rs: DeviceMapper::new, and main before the menu loop
Init ==
    /\ controllers = <<>>
    /\ running = FALSE
    /\ mapped_keys = {}
    /\ ninputs = 0
    /\ ctl = "idle"
    /\ nsessions = 0
    /\ lastStart = [called |-> FALSE, busy |-> FALSE, ok |-> FALSE]
    /\ stopRet = {}
    /\ startKeys = [w \in Sessions |-> {}]
    /\ wpc = [w \in Sessions |-> "none"]
    /\ settings = [w \in Sessions |-> <<>>]
    /\ wmapped = [w \in Sessions |-> {}]
    /\ batch = [w \in Sessions |-> <<>>]
    /\ fetched = [w \in Sessions |-> <<>>]
    /\ emitted = [w \in Sessions |-> <<>>]
    /\ result = [w \in Sessions |-> "none"]
    /\ grabs = [w \in Sessions |-> 0]
    /\ ungrabs = [w \in Sessions |-> 0]
    /\ grabbedBy = 0
    /\ devq = [w \in Sessions |-> <<>>]
    /\ bpc = [w \in Sessions |-> "none"]
    /\ sigchan = [w \in Sessions |-> 0]
    /\ binding = EmptyMapping
    /\ prompt = 0
    /\ lastPrompt = [k \in PhysKeys |-> 0]
    /\ cpc = "none"
    /\ cq = <<>>
    /\ cskip = 0
    /\ ckey = <<>>
    /\ cres = "none"

(* ------------------------- pure helper functions ----------------------- *)
\* HashMap::get(..).copied(): <<>> for None, <<v>> for Some(v)
MapGet(m, k) == IF k \in DOMAIN m THEN << m[k] >> ELSE <<>>

\* InputEvent::new(type, code, value) written to the sink `sink`
\* (0 is the forwarded keyboard, i >= 1 the i-th controller of the worker)
Emission(sink, type, code, value) ==
    [sink |-> sink, type |-> type, code |-> code, value |-> value]

\* controller.rs: VirtualController::handle_key_event(key_code, value):
\* looks key_code up in the controller's own key_mapping and emits the
\* mapped code with the value; emits nothing when key_code is not a key of it
handle_key_event(key_mapping, sink, key_code, value) ==
    LET controller_key == MapGet(key_mapping, key_code)
    IN  IF controller_key # <<>>
        THEN << Emission(sink, "KEY", controller_key[1], value) >>
        ELSE <<>>

\* mapping.rs 151-160: for controller in &mut controllers, from the i-th on:
\* target_key = mapping.get(&key_code); if Some, handle_key_event(target_key, value)
RECURSIVE FanOut(_, _, _, _)
FanOut(ctrls, i, key_code, value) ==
    IF i > Len(ctrls) THEN <<>>
    ELSE LET target_key == MapGet(ctrls[i], key_code)
         IN  (IF target_key # <<>>
              THEN handle_key_event(ctrls[i], i, target_key[1], value)
              ELSE <<>>)
             \o FanOut(ctrls, i + 1, key_code, value)

\* DispatchEvent with the passthrough branch forwarding presses and releases
\* only (auto-repeat events of unclaimed keys are dropped)
DispatchEvent_DropRepeat(ev, mk, ctrls) ==
    IF ev.type = "KEY"
    THEN IF ev.code \in mk
         THEN FanOut(ctrls, 1, ev.code, ev.value)
         ELSE IF ev.value = 2 THEN <<>>
              ELSE << Emission(0, "KEY", ev.code, ev.value) >>
    ELSE << Emission(0, ev.type, ev.code, ev.value) >>

\* mapping.rs 146-171: the emissions one fetched event causes
DispatchEvent(ev, mk, ctrls) ==
    IF ev.type = "KEY"
    THEN IF ev.code \in mk
         THEN FanOut(ctrls, 1, ev.code, ev.value)
         ELSE << Emission(0, "KEY", ev.code, ev.value) >>
    ELSE << Emission(0, ev.type, ev.code, ev.value) >>

\* log entries: the emission, and the index in `fetched` of the event behind it
Tagged(emits, idx) ==
    [j \in 1..Len(emits) |->
        [sink |-> emits[j].sink, type |-> emits[j].type, code |-> emits[j].code,
         value |-> emits[j].value, ev |-> idx]]

(* --------------------------- control thread ---------------------------- *)
\* mapping.rs 32-40: add_controller(controller)
add_controller(key_mapping) ==
    /\ mapped_keys' = mapped_keys \cup DOMAIN key_mapping
    /\ controllers' = Append(controllers, key_mapping)

\* main.rs 40-57: menu option 1: the first controller gets the default
\* mapping, a later one is bound by hand; then it is registered
CreateController(m) ==
    /\ ctl = "idle"
    /\ ninputs < MaxInputs
    /\ IF Len(controllers) + 1 = 1 THEN m = DefaultMapping
                                   ELSE m \in ManualMappings
    /\ add_controller(m)
    /\ ninputs' = ninputs + 1
    /\ UNCHANGED << running, ctl, nsessions, lastStart, stopRet, startKeys >>
    /\ UNCHANGED << wrkVars, devVars, sigVars >>
    /\ UNCHANGED capVars

\* an insert into the key_mapping of a controller that is already registered
\* (DeviceMapper.controllers and VirtualController.key_mapping are public)
EditRegistered(i, k, b) ==
    /\ ctl = "idle"
    /\ i \in 1..Len(controllers)
    /\ ninputs < MaxInputs
    /\ controllers' = [controllers EXCEPT ![i] = MapInsert(@, k, b)]
    /\ ninputs' = ninputs + 1
    /\ UNCHANGED << running, mapped_keys, ctl, nsessions, lastStart,
                    stopRet, startKeys >>
    /\ UNCHANGED << wrkVars, devVars, sigVars >>
    /\ UNCHANGED capVars

\* a worker thread that has been spawned and has not returned
Alive(w) == wpc[w] \notin {"none", "done"}

\* StartNoControllers with the running flag set before the controllers are
\* looked at (line 61 moved above the check of line 44)
StartNoControllers_SetsRunning ==
    /\ ctl = "idle"
    /\ controllers = <<>>
    /\ ninputs < MaxInputs
    /\ ninputs' = ninputs + 1
    /\ running' = TRUE
    /\ lastStart' = [called |-> TRUE, busy |-> \E w \in Sessions : Alive(w),
                     ok |-> FALSE]
    /\ UNCHANGED << controllers, mapped_keys, ctl, nsessions,
                    stopRet, startKeys >>
    /\ UNCHANGED << wrkVars, devVars, sigVars >>
    /\ UNCHANGED capVars

\* mapping.rs 44-46: start_mapping with no controller returns Err
StartNoControllers ==
    /\ ctl = "idle"
    /\ controllers = <<>>
    /\ ninputs < MaxInputs
    /\ ninputs' = ninputs + 1
    /\ lastStart' = [called |-> TRUE, busy |-> \E w \in Sessions : Alive(w),
                     ok |-> FALSE]
    /\ UNCHANGED << controllers, running, mapped_keys, ctl, nsessions,
                    stopRet, startKeys >>
    /\ UNCHANGED << wrkVars, devVars, sigVars >>
    /\ UNCHANGED capVars

\* mapping.rs 47-193: start_mapping with controllers: snapshot the mappings,
\* set running, spawn the signal bridge and the worker, return Ok(handle)
start_mapping ==
    /\ LET w == nsessions + 1 IN
        /\ settings' = [settings EXCEPT ![w] = controllers]
        /\ wpc' = [wpc EXCEPT ![w] = "spawned"]
        /\ bpc' = [bpc EXCEPT ![w] = "waiting"]
        /\ startKeys' = [startKeys EXCEPT ![w] = mapped_keys]
    /\ running' = TRUE
    /\ nsessions' = nsessions + 1
    /\ lastStart' = [called |-> TRUE, busy |-> \E w \in Sessions : Alive(w),
                     ok |-> TRUE]
    /\ UNCHANGED << wmapped, batch, fetched, emitted, result, grabs,
                    ungrabs >>
    /\ UNCHANGED << devVars, sigchan >>

\* a call of start_mapping on a mapper that has controllers
StartMapping ==
    /\ ctl = "idle"
    /\ controllers # <<>>
    /\ ninputs < MaxInputs
    /\ ninputs' = ninputs + 1
    /\ start_mapping
    /\ UNCHANGED << controllers, mapped_keys, ctl, stopRet >>
    /\ UNCHANGED capVars

\* StopClear with the flag toggled instead of cleared
StopClear_Toggle ==
    /\ ctl = "idle"
    /\ ninputs < MaxInputs
    /\ ninputs' = ninputs + 1
    /\ running' = ~running
    /\ ctl' = "stopping"
    /\ UNCHANGED << controllers, mapped_keys, nsessions,
                    lastStart, stopRet, startKeys >>
    /\ UNCHANGED << wrkVars, devVars, sigVars >>
    /\ UNCHANGED capVars

\* mapping.rs 196: stop_mapping clears the flag, then sleeps
StopClear ==
    /\ ctl = "idle"
    /\ ninputs < MaxInputs
    /\ ninputs' = ninputs + 1
    /\ running' = FALSE
    /\ ctl' = "stopping"
    /\ UNCHANGED << controllers, mapped_keys, nsessions,
                    lastStart, stopRet, startKeys >>
    /\ UNCHANGED << wrkVars, devVars, sigVars >>
    /\ UNCHANGED capVars

\* mapping.rs 197-198: the sleep ends and stop_mapping returns (no join)
StopReturn ==
    /\ ctl = "stopping"
    /\ ctl' = "idle"
    /\ stopRet' = IF nsessions > 0 THEN stopRet \cup {nsessions} ELSE stopRet
    /\ UNCHANGED << controllers, running, mapped_keys, ninputs,
                    nsessions, lastStart, startKeys >>
    /\ UNCHANGED << wrkVars, devVars, sigVars >>
    /\ UNCHANGED capVars

(* ------------------------------ worker --------------------------------- *)
\* positions at which the worker's Device handle is open
OpenPcs == {"created", "while", "select", "fetch", "dispatch", "ungrab"}

\* positions inside the dispatch loop (mapping.rs 129-175)
LoopPcs == {"while", "select", "fetch", "dispatch"}

\* the closure returns `res`: its locals are dropped, and closing the Device
\* handle discards its queue and ends a grab the handle still holds
\* (batch keeps the events that were fetched and never dispatched)
ReturnFromWorker(w, res) ==
    /\ wpc' = [wpc EXCEPT ![w] = "done"]
    /\ result' = [result EXCEPT ![w] = res]
    /\ grabbedBy' = IF grabbedBy = w THEN 0 ELSE grabbedBy
    /\ devq' = [devq EXCEPT ![w] = <<>>]

\* mapping.rs 90-109: Device::open succeeds, the shared mapped_keys is cloned
\* as it is now, and the controllers are recreated from controller_settings
WorkerOpen(w) ==
    /\ wpc[w] = "spawned"
    /\ wmapped' = [wmapped EXCEPT ![w] = mapped_keys]
    /\ wpc' = [wpc EXCEPT ![w] = "created"]
    /\ UNCHANGED << settings, batch, fetched, emitted, result, grabs,
                    ungrabs >>
    /\ UNCHANGED << ctlVars, devVars, sigVars >>
    /\ UNCHANGED capVars

\* mapping.rs 90: Device::open(..)? fails
WorkerOpenFail(w) ==
    /\ wpc[w] = "spawned"
    /\ ReturnFromWorker(w, "err_open")
    /\ UNCHANGED << settings, wmapped, batch, fetched, emitted, grabs, ungrabs >>
    /\ UNCHANGED << ctlVars, sigVars >>
    /\ UNCHANGED capVars

\* mapping.rs 99: VirtualController::new(&name)? fails
WorkerCreateFail(w) ==
    /\ wpc[w] = "created"
    /\ ReturnFromWorker(w, "err_create")
    /\ UNCHANGED << settings, wmapped, batch, fetched, emitted, grabs, ungrabs >>
    /\ UNCHANGED << ctlVars, sigVars >>
    /\ UNCHANGED capVars

\* mapping.rs 112-126: keyboard.grab() is Ok when no handle holds the grab;
\* the passthrough keyboard and the ticker are then created
WorkerGrab(w) ==
    /\ wpc[w] = "created"
    /\ grabbedBy = 0
    /\ grabbedBy' = w
    /\ grabs' = [grabs EXCEPT ![w] = @ + 1]
    /\ wpc' = [wpc EXCEPT ![w] = "while"]
    /\ UNCHANGED << settings, wmapped, batch, fetched, emitted, result,
                    ungrabs >>
    /\ UNCHANGED << ctlVars, devq, sigVars >>
    /\ UNCHANGED capVars

\* mapping.rs 183-186: keyboard.grab() is Err (another handle of this or of
\* another process holds the device): return Err, without ungrab
WorkerGrabFail(w) ==
    /\ wpc[w] = "created"
    /\ ReturnFromWorker(w, "err_grab")
    /\ UNCHANGED << settings, wmapped, batch, fetched, emitted, grabs, ungrabs >>
    /\ UNCHANGED << ctlVars, sigVars >>
    /\ UNCHANGED capVars

\* mapping.rs 112-122: keyboard.grab() is Ok, then builder()? / with_keys()? /
\* build()? fails: the closure returns from inside the Ok arm, past the
\* ungrab of line 178, and the grab ends with the handle
WorkerCreateKbdFail(w) ==
    /\ wpc[w] = "created"
    /\ grabbedBy = 0
    /\ grabs' = [grabs EXCEPT ![w] = @ + 1]
    /\ ReturnFromWorker(w, "err_kbd")
    /\ UNCHANGED << settings, wmapped, batch, fetched, emitted, ungrabs >>
    /\ UNCHANGED << ctlVars, sigVars >>
    /\ UNCHANGED capVars

\* mapping.rs 129: while *running.lock()
WorkerWhile(w) ==
    /\ wpc[w] = "while"
    /\ wpc' = [wpc EXCEPT ![w] = IF running THEN "select" ELSE "ungrab"]
    /\ UNCHANGED << settings, wmapped, batch, fetched, emitted, result, grabs, ungrabs >>
    /\ UNCHANGED << ctlVars, devVars, sigVars >>
    /\ UNCHANGED capVars

\* mapping.rs 132-136: recv(signal_rx) is ready: break
WorkerSelectSignal(w) ==
    /\ wpc[w] = "select"
    /\ sigchan[w] > 0
    /\ sigchan' = [sigchan EXCEPT ![w] = @ - 1]
    /\ wpc' = [wpc EXCEPT ![w] = "ungrab"]
    /\ UNCHANGED << settings, wmapped, batch, fetched, emitted, result, grabs, ungrabs >>
    /\ UNCHANGED << ctlVars, devVars, bpc >>
    /\ UNCHANGED capVars

\* mapping.rs 137-142: recv(ticker) is ready (100 ms have passed): check the flag
WorkerSelectTick(w) ==
    /\ wpc[w] = "select"
    /\ wpc' = [wpc EXCEPT ![w] = IF running THEN "while" ELSE "ungrab"]
    /\ UNCHANGED << settings, wmapped, batch, fetched, emitted, result, grabs, ungrabs >>
    /\ UNCHANGED << ctlVars, devVars, sigVars >>
    /\ UNCHANGED capVars

\* mapping.rs 143-145: no channel is ready: the default branch calls
\* keyboard.fetch_events(), a blocking read of the handle
WorkerSelectDefault(w) ==
    /\ wpc[w] = "select"
    /\ sigchan[w] = 0
    /\ wpc' = [wpc EXCEPT ![w] = "fetch"]
    /\ UNCHANGED << settings, wmapped, batch, fetched, emitted, result, grabs, ungrabs >>
    /\ UNCHANGED << ctlVars, devVars, sigVars >>
    /\ UNCHANGED capVars

\* mapping.rs 145: fetch_events() returns once the handle has events queued
WorkerFetch(w) ==
    /\ wpc[w] = "fetch"
    /\ devq[w] # <<>>
    /\ batch' = [batch EXCEPT ![w] = devq[w]]
    /\ fetched' = [fetched EXCEPT ![w] = @ \o devq[w]]
    /\ devq' = [devq EXCEPT ![w] = <<>>]
    /\ wpc' = [wpc EXCEPT ![w] = "dispatch"]
    /\ UNCHANGED << settings, wmapped, emitted, result, grabs, ungrabs >>
    /\ UNCHANGED << ctlVars, grabbedBy, sigVars >>
    /\ UNCHANGED capVars

\* mapping.rs 145: fetch_events()? fails: return Err, past the ungrab
WorkerFetchFail(w) ==
    /\ wpc[w] = "fetch"
    /\ ReturnFromWorker(w, "err_fetch")
    /\ UNCHANGED << settings, wmapped, batch, fetched, emitted, grabs, ungrabs >>
    /\ UNCHANGED << ctlVars, sigVars >>
    /\ UNCHANGED capVars

\* index in fetched[w] of the event at the head of batch[w]
HeadIndex(w) == Len(fetched[w]) - Len(batch[w]) + 1

\* WorkerDispatch with the emissions of the event written ahead of the
\* earlier ones
WorkerDispatch_Prepend(w) ==
    /\ wpc[w] = "dispatch"
    /\ batch[w] # <<>>
    /\ LET emits == DispatchEvent(Head(batch[w]), wmapped[w], settings[w])
       IN  emitted' = [emitted EXCEPT ![w] = Tagged(emits, HeadIndex(w)) \o @]
    /\ batch' = [batch EXCEPT ![w] = Tail(@)]
    /\ wpc' = [wpc EXCEPT ![w] =
                  IF Tail(batch[w]) = <<>> THEN "while" ELSE "dispatch"]
    /\ UNCHANGED << settings, wmapped, fetched, result, grabs, ungrabs >>
    /\ UNCHANGED << ctlVars, devVars, sigVars >>
    /\ UNCHANGED capVars

\* mapping.rs 145-172: one iteration of `for ev in ..`: every emission succeeds
WorkerDispatch(w) ==
    /\ wpc[w] = "dispatch"
    /\ batch[w] # <<>>
    /\ LET emits == DispatchEvent(Head(batch[w]), wmapped[w], settings[w])
       IN  emitted' = [emitted EXCEPT ![w] = @ \o Tagged(emits, HeadIndex(w))]
    /\ batch' = [batch EXCEPT ![w] = Tail(@)]
    /\ wpc' = [wpc EXCEPT ![w] =
                  IF Tail(batch[w]) = <<>> THEN "while" ELSE "dispatch"]
    /\ UNCHANGED << settings, wmapped, fetched, result, grabs, ungrabs >>
    /\ UNCHANGED << ctlVars, devVars, sigVars >>
    /\ UNCHANGED capVars

\* mapping.rs 158, 165, 170: the (n+1)-th emission of the event fails with `?`:
\* the first n have been written, the closure returns Err, past the ungrab
WorkerEmitFail(w, n) ==
    /\ wpc[w] = "dispatch"
    /\ batch[w] # <<>>
    /\ LET emits == DispatchEvent(Head(batch[w]), wmapped[w], settings[w])
       IN  /\ n < Len(emits)
           /\ emitted' = [emitted EXCEPT ![w] =
                             @ \o Tagged(SubSeq(emits, 1, n), HeadIndex(w))]
    /\ ReturnFromWorker(w, "err_emit")
    /\ UNCHANGED << settings, wmapped, batch, fetched, grabs, ungrabs >>
    /\ UNCHANGED << ctlVars, sigVars >>
    /\ UNCHANGED capVars

\* WorkerUngrab with the loop exit returning Ok(()) without the ungrab call
WorkerUngrab_NoCall(w) ==
    /\ wpc[w] = "ungrab"
    /\ ReturnFromWorker(w, "ok")
    /\ UNCHANGED << settings, wmapped, batch, fetched, emitted, grabs, ungrabs >>
    /\ UNCHANGED << ctlVars, sigVars >>
    /\ UNCHANGED capVars

\* mapping.rs 178-189: keyboard.ungrab() (an Err is printed and not
\* returned), then Ok(())
WorkerUngrab(w) ==
    /\ wpc[w] = "ungrab"
    /\ ungrabs' = [ungrabs EXCEPT ![w] = @ + 1]
    /\ ReturnFromWorker(w, "ok")
    /\ UNCHANGED << settings, wmapped, batch, fetched, emitted, grabs >>
    /\ UNCHANGED << ctlVars, sigVars >>
    /\ UNCHANGED capVars

(* ------------------------- physical device ----------------------------- *)
\* the handles the kernel delivers an event to: the grabbing handle alone
\* while one holds the grab, every open handle otherwise
Recipients ==
    IF grabbedBy # 0 THEN {grabbedBy}
    ELSE {w \in Sessions : wpc[w] \in OpenPcs}

\* mapping.rs 216: the events capture_key is waiting for
IsPress(ev) == ev.type = "KEY" /\ ev.value = 1

\* the capture thread's handle is open and receives what the keyboard
\* produces: no handle holds the grab, and no press is queued for it yet (at
\* the first press it reads, the thread returns and its handle is closed, so
\* nothing that arrives after a press is ever read from this handle)
CaptureReceives ==
    /\ cpc = "fetch"
    /\ grabbedBy = 0
    /\ \A j \in 1..Len(cq) : ~IsPress(cq[j])

\* the keyboard produces one raw event; it counts as an input of the run,
\* except the press that ends a capture_key call (the prompts bound those)
PhysEvent(ev) ==
    /\ Recipients # {} \/ CaptureReceives
    /\ ninputs + (IF CaptureReceives /\ IsPress(ev) THEN 0 ELSE 1) <= MaxInputs
    /\ ninputs' = ninputs + (IF CaptureReceives /\ IsPress(ev) THEN 0 ELSE 1)
    /\ devq' = [w \in Sessions |->
                   IF w \in Recipients THEN Append(devq[w], ev) ELSE devq[w]]
    /\ cq' = IF CaptureReceives THEN Append(cq, ev) ELSE cq
    /\ UNCHANGED << binding, prompt, lastPrompt, cpc, cskip, ckey, cres >>
    /\ UNCHANGED grabbedBy
    /\ UNCHANGED << controllers, running, mapped_keys, ctl, nsessions,
                    lastStart, stopRet, startKeys >>
    /\ UNCHANGED << wrkVars, sigVars >>

(* --------------------------- signal bridge ----------------------------- *)
\* SIGINT, SIGTERM or SIGHUP reaches every Signals iterator that is waiting
Signal ==
    /\ ninputs < MaxInputs
    /\ \E w \in Sessions : bpc[w] = "waiting"
    /\ bpc' = [w \in Sessions |->
                  IF bpc[w] = "waiting" THEN "signalled" ELSE bpc[w]]
    /\ ninputs' = ninputs + 1
    /\ UNCHANGED sigchan
    /\ UNCHANGED << controllers, running, mapped_keys, ctl, nsessions,
                    lastStart, stopRet, startKeys >>
    /\ UNCHANGED << wrkVars, devVars >>
    /\ UNCHANGED capVars

\* mapping.rs 83: *signal_running.lock() = false
BridgeClear(w) ==
    /\ bpc[w] = "signalled"
    /\ running' = FALSE
    /\ bpc' = [bpc EXCEPT ![w] = "cleared"]
    /\ UNCHANGED << controllers, mapped_keys, ninputs, ctl, nsessions,
                    lastStart, stopRet, startKeys >>
    /\ UNCHANGED sigchan
    /\ UNCHANGED << wrkVars, devVars >>
    /\ UNCHANGED capVars

\* mapping.rs 84-85: signal_tx_clone.send(()); break
BridgeSend(w) ==
    /\ bpc[w] = "cleared"
    /\ sigchan' = [sigchan EXCEPT ![w] = @ + 1]
    /\ bpc' = [bpc EXCEPT ![w] = "done"]
    /\ UNCHANGED << ctlVars, wrkVars, devVars >>
    /\ UNCHANGED capVars

(* --------------------------- capture thread ---------------------------- *)
\* mapping.rs 212: the capture thread opens its own handle on the keyboard
CaptureOpen ==
    /\ cpc = "spawned"
    /\ cpc' = "fetch"
    /\ UNCHANGED << binding, prompt, lastPrompt, cq, cskip, ckey, cres >>
    /\ UNCHANGED << ctlVars, wrkVars, devVars, sigVars >>

\* mapping.rs 212: Device::open(..)? fails: the thread returns Err and drops tx
CaptureOpenFail ==
    /\ cpc = "spawned"
    /\ cpc' = "done"
    /\ cres' = "err"
    /\ UNCHANGED << binding, prompt, lastPrompt, cq, cskip, ckey >>
    /\ UNCHANGED << ctlVars, wrkVars, devVars, sigVars >>

\* mapping.rs 215: keyboard.fetch_events()? fails
CaptureFetchFail ==
    /\ cpc = "fetch"
    /\ cpc' = "done"
    /\ cres' = "err"
    /\ cq' = <<>>
    /\ UNCHANGED << binding, prompt, lastPrompt, cskip, ckey >>
    /\ UNCHANGED << ctlVars, wrkVars, devVars, sigVars >>

\* the first of the positions P of a batch (0: there is none): where the
\* `for event in ..` loop stops
FirstIndex(P) ==
    IF P = {} THEN 0 ELSE CHOOSE j \in P : \A i \in P : j <= i

\* CaptureFetch taking any key event that is not a release (press or
\* auto-repeat) as the key to capture
CaptureFetch_AnyKeyDown ==
    /\ cpc = "fetch"
    /\ cq # <<>>
    /\ LET j == FirstIndex({i \in 1..Len(cq) :
                               cq[i].type = "KEY" /\ cq[i].value >= 1})
       IN  IF j > 0
           THEN /\ ckey' = << cq[j].code >>
                /\ cpc' = "done"
                /\ cres' = "ok"
                /\ cskip' = cskip + (j - 1)
           ELSE /\ cskip' = cskip + Len(cq)
                /\ UNCHANGED << ckey, cpc, cres >>
    /\ cq' = <<>>
    /\ UNCHANGED << binding, prompt, lastPrompt >>
    /\ UNCHANGED << ctlVars, wrkVars, devVars, sigVars >>

\* mapping.rs 214-224: fetch_events() returns the queued events; the first
\* key event with value 1 among them is sent and the thread returns Ok (the
\* rest of the batch is dropped with the handle); with no such event the
\* thread sleeps 10 ms and fetches again
CaptureFetch ==
    /\ cpc = "fetch"
    /\ cq # <<>>
    /\ LET j == FirstIndex({i \in 1..Len(cq) : IsPress(cq[i])})
       IN  IF j > 0
           THEN /\ ckey' = << cq[j].code >>
                /\ cpc' = "done"
                /\ cres' = "ok"
                /\ cskip' = cskip + (j - 1)
           ELSE /\ cskip' = cskip + Len(cq)
                /\ UNCHANGED << ckey, cpc, cres >>
    /\ cq' = <<>>
    /\ UNCHANGED << binding, prompt, lastPrompt >>
    /\ UNCHANGED << ctlVars, wrkVars, devVars, sigVars >>

(* --------------------------- main's menu loop --------------------------- *)
\* the process ends: its signal-bridge threads end with it, and main's
\* locals (the controller being bound, the capture thread's channel) are gone
ProcessExit ==
    /\ ctl' = "exit"
    /\ bpc' = [w \in Sessions |->
                  IF bpc[w] \in {"waiting", "signalled", "cleared"}
                  THEN "killed" ELSE bpc[w]]
    /\ binding' = EmptyMapping
    /\ prompt' = 0
    /\ lastPrompt' = [k \in PhysKeys |-> 0]
    /\ cpc' = "none"
    /\ cq' = <<>>
    /\ cskip' = 0
    /\ ckey' = <<>>
    /\ cres' = "none"

\* main.rs 40-57: option 1 with no controller yet: the first controller gets
\* the default mapping and is registered
MainCreateDefault ==
    /\ ctl = "idle"
    /\ Len(controllers) + 1 = 1
    /\ ninputs < MaxInputs
    /\ ninputs' = ninputs + 1
    /\ add_controller(DefaultMapping)
    /\ UNCHANGED << running, ctl, nsessions, lastStart, stopRet, startKeys >>
    /\ UNCHANGED << wrkVars, devVars, sigVars, capVars >>

\* main.rs 40-53, ui.rs 114-134: option 1 with a controller registered: a new
\* controller (empty key_mapping) enters map_controller_buttons
MainCreateManual ==
    /\ ctl = "idle"
    /\ Len(controllers) + 1 > 1
    /\ Len(controllers) < MaxControllers
    /\ ninputs < MaxInputs
    /\ ninputs' = ninputs + 1
    /\ ctl' = "bind"
    /\ binding' = EmptyMapping
    /\ prompt' = 1
    /\ lastPrompt' = [k \in PhysKeys |-> 0]
    /\ UNCHANGED << cpc, cq, cskip, ckey, cres >>
    /\ UNCHANGED << controllers, running, mapped_keys, nsessions, lastStart,
                    stopRet, startKeys >>
    /\ UNCHANGED << wrkVars, devVars, sigVars >>

\* ui.rs 136-148, mapping.rs 200-228: the next prompt: capture_key spawns the
\* capture thread and waits in rx.recv()
MainCaptureKey ==
    /\ ctl = "bind"
    /\ prompt <= Len(ButtonPrompts)
    /\ ctl' = "capture"
    /\ cpc' = "spawned"
    /\ cq' = <<>>
    /\ cskip' = 0
    /\ ckey' = <<>>
    /\ cres' = "none"
    /\ UNCHANGED << binding, prompt, lastPrompt >>
    /\ UNCHANGED << controllers, running, mapped_keys, ninputs, nsessions,
                    lastStart, stopRet, startKeys >>
    /\ UNCHANGED << wrkVars, devVars, sigVars >>

\* mapping.rs 228-233, ui.rs 150-157: rx.recv() yields the key, the capture
\* thread is joined, and the key is inserted for the button of this prompt
MainCaptureReturn ==
    /\ ctl = "capture"
    /\ ckey # <<>>
    /\ cpc = "done"
    /\ binding' = MapInsert(binding, ckey[1], ButtonPrompts[prompt])
    /\ lastPrompt' = [lastPrompt EXCEPT ![ckey[1]] = prompt]
    /\ prompt' = prompt + 1
    /\ ctl' = "bind"
    /\ cpc' = "none"
    /\ ckey' = <<>>
    /\ cskip' = 0
    /\ cres' = "none"
    /\ UNCHANGED cq
    /\ UNCHANGED << controllers, running, mapped_keys, ninputs, nsessions,
                    lastStart, stopRet, startKeys >>
    /\ UNCHANGED << wrkVars, devVars, sigVars >>

\* mapping.rs 228, ui.rs 148, main.rs 53: the capture thread ended with Err and
\* dropped tx: rx.recv()? fails, and each `?` on the way up returns, out of main
MainCaptureErr ==
    /\ ctl = "capture"
    /\ cpc = "done"
    /\ cres = "err"
    /\ ProcessExit
    /\ UNCHANGED sigchan
    /\ UNCHANGED << controllers, running, mapped_keys, ninputs, nsessions,
                    lastStart, stopRet, startKeys >>
    /\ UNCHANGED << wrkVars, devVars >>

\* ui.rs 158-172, main.rs 56: all prompts done: the controller is registered
MainBindDone ==
    /\ ctl = "bind"
    /\ prompt > Len(ButtonPrompts)
    /\ add_controller(binding)
    /\ ctl' = "idle"
    /\ prompt' = 0
    /\ UNCHANGED << binding, lastPrompt, cpc, cq, cskip, ckey, cres >>
    /\ UNCHANGED << running, ninputs, nsessions, lastStart, stopRet, startKeys >>
    /\ UNCHANGED << wrkVars, devVars, sigVars >>

\* main.rs 71-76: option 3 with no controller: a prompt, back to the menu
MainStartNoControllers ==
    /\ ctl = "idle"
    /\ controllers = <<>>
    /\ ninputs < MaxInputs
    /\ ninputs' = ninputs + 1
    /\ UNCHANGED << controllers, running, mapped_keys, ctl, nsessions,
                    lastStart, stopRet, startKeys >>
    /\ UNCHANGED << wrkVars, devVars, sigVars, capVars >>

\* main.rs 79-111: option 3: start_mapping, then wait in stop_rx.recv()
MainStart ==
    /\ ctl = "idle"
    /\ controllers # <<>>
    /\ ninputs < MaxInputs
    /\ ninputs' = ninputs + 1
    /\ start_mapping
    /\ ctl' = "wait"
    /\ UNCHANGED << controllers, mapped_keys, stopRet >>
    /\ UNCHANGED capVars

\* main.rs 90-115, mapping.rs 196: the user presses Delete: stop_rx.recv()
\* returns and stop_mapping clears the flag
MainDelete ==
    /\ ctl = "wait"
    /\ ninputs < MaxInputs
    /\ ninputs' = ninputs + 1
    /\ running' = FALSE
    /\ ctl' = "stopping"
    /\ UNCHANGED << controllers, mapped_keys, nsessions,
                    lastStart, stopRet, startKeys >>
    /\ UNCHANGED << wrkVars, devVars, sigVars, capVars >>

\* mapping.rs 197-198, main.rs 118: stop_mapping's sleep ends; main takes the
\* handle to join it
MainStopReturn ==
    /\ ctl = "stopping"
    /\ ctl' = "join"
    /\ stopRet' = stopRet \cup {nsessions}
    /\ UNCHANGED << controllers, running, mapped_keys, ninputs,
                    nsessions, lastStart, startKeys >>
    /\ UNCHANGED << wrkVars, devVars, sigVars, capVars >>

\* MainJoin returning to the menu without waiting for the worker to end
MainJoin_NoWait ==
    /\ ctl = "join"
    /\ ctl' = "idle"
    /\ UNCHANGED << controllers, running, mapped_keys, ninputs,
                    nsessions, lastStart, stopRet, startKeys >>
    /\ UNCHANGED << wrkVars, devVars, sigVars, capVars >>

\* main.rs 118-122: handle.join() returns once the worker has ended: Ok leads
\* back to the menu, Err leaves main through `?`
MainJoin ==
    /\ ctl = "join"
    /\ wpc[nsessions] = "done"
    /\ IF result[nsessions] = "ok"
       THEN ctl' = "idle" /\ UNCHANGED << bpc, capVars >>
       ELSE ProcessExit
    /\ UNCHANGED sigchan
    /\ UNCHANGED << controllers, running, mapped_keys, ninputs,
                    nsessions, lastStart, stopRet, startKeys >>
    /\ UNCHANGED << wrkVars, devVars >>

\* main.rs 133-148: option 4: leave the loop (mapping_thread is None), exit
MainExit ==
    /\ ctl = "idle"
    /\ ninputs < MaxInputs
    /\ ninputs' = ninputs + 1
    /\ ProcessExit
    /\ UNCHANGED sigchan
    /\ UNCHANGED << controllers, running, mapped_keys, nsessions,
                    lastStart, stopRet, startKeys >>
    /\ UNCHANGED << wrkVars, devVars >>

(* ---------------------------- specification ---------------------------- *)
Control ==
    \/ \E m \in {DefaultMapping} \cup ManualMappings : CreateController(m)
    \/ \E i \in 1..MaxInputs, k \in PhysKeys, b \in BindButtons :
          EditRegistered(i, k, b)
    \/ StartNoControllers
    \/ StartMapping
    \/ StopClear
    \/ StopReturn

Worker(w) ==
    \/ WorkerOpen(w)
    \/ WorkerGrab(w)
    \/ WorkerWhile(w)
    \/ WorkerSelectSignal(w)
    \/ WorkerSelectTick(w)
    \/ WorkerSelectDefault(w)
    \/ WorkerFetch(w)
    \/ WorkerDispatch(w)
    \/ WorkerUngrab(w)

\* failures of the device or of a virtual device
WorkerIoFail(w) ==
    \/ WorkerOpenFail(w)
    \/ WorkerCreateFail(w)
    \/ WorkerGrabFail(w)
    \/ WorkerCreateKbdFail(w)
    \/ WorkerFetchFail(w)
    \/ \E n \in 0..MaxInputs : WorkerEmitFail(w, n)

Bridge(w) == BridgeClear(w) \/ BridgeSend(w)

Environment == Signal \/ \E ev \in PhysEvents : PhysEvent(ev)

Next ==
    \/ Control
    \/ \E w \in Sessions : Worker(w)
    \/ \E w \in Sessions : WorkerIoFail(w)
    \/ \E w \in Sessions : Bridge(w)
    \/ Environment

Spec == Init /\ [][Next]_vars

\* scheduling: a thread that can take a step eventually takes one, the sleep
\* of stop_mapping ends; nothing obliges the keyboard to produce an event,
\* a signal to arrive, a call to be made or an I/O operation to fail
FairSpec ==
    /\ Spec
    /\ WF_vars(StopReturn)
    /\ \A w \in Sessions : WF_vars(Worker(w)) /\ WF_vars(Bridge(w))

\* main.rs 38-139: what main does with the mapper
MainControl ==
    \/ MainCreateDefault
    \/ MainCreateManual
    \/ MainCaptureKey
    \/ MainCaptureReturn
    \/ MainCaptureErr
    \/ MainBindDone
    \/ MainStartNoControllers
    \/ MainStart
    \/ MainDelete
    \/ MainStopReturn
    \/ MainJoin
    \/ MainExit

Capture == CaptureOpen \/ CaptureFetch

CaptureIoFail == CaptureOpenFail \/ CaptureFetchFail

\* the program as main drives it: the threads and the environment are those
\* of Spec, the calls on the mapper come in the order main makes them
MainNext ==
    \/ MainControl
    \/ Capture
    \/ CaptureIoFail
    \/ \E w \in Sessions : Worker(w)
    \/ \E w \in Sessions : WorkerIoFail(w)
    \/ \E w \in Sessions : Bridge(w)
    \/ Environment

MainSpec == Init /\ [][MainNext]_vars

\* the steps of main that wait for no input: a call returns, a thread is
\* joined, the binding loop goes on to its next prompt
MainProgress ==
    \/ MainCaptureKey
    \/ MainCaptureReturn
    \/ MainCaptureErr
    \/ MainBindDone
    \/ MainStopReturn
    \/ MainJoin

\* scheduling under main: every thread that can take a step eventually takes
\* one; nothing obliges the user to choose a menu entry or to press Delete,
\* the keyboard to produce an event, a signal to arrive or an I/O to fail
FairMainSpec ==
    /\ MainSpec
    /\ WF_vars(MainProgress)
    /\ WF_vars(Capture)
    /\ \A w \in Sessions : WF_vars(Worker(w)) /\ WF_vars(Bridge(w))

(* ------------------------- views used by the claims --------------------- *)
\* number of fetched events whose dispatch has completed
NDispatched(w) == Len(fetched[w]) - Len(batch[w])

\* the emissions of worker w that its i-th fetched event caused
CausedBy(w, i) ==
    LET Mine(e) == e.ev = i IN SelectSeq(emitted[w], Mine)

\* a log entry without its event index
Untagged(es) ==
    [j \in 1..Len(es) |-> Emission(es[j].sink, es[j].type, es[j].code, es[j].value)]

\* the source keys of every key mapping there is: of the registered
\* controllers as they are now, and of every worker's snapshot
AnyMappingKeys ==
    UNION ( {DOMAIN controllers[i] : i \in 1..Len(controllers)}
            \cup UNION {{DOMAIN settings[w][c] : c \in 1..Len(settings[w])} : w \in Sessions} )

(* -------------------------------- claims ------------------------------- *)
\* C1: in every session, for every controller c of the session whose mapping
\* at start holds K -> B, each dispatched key event for K with value 0 or 1
\* causes exactly one emission on c's sink, and it is (B, value).
C1_ClaimedKeyEmitsTarget ==
    \A w \in Sessions : \A i \in 1..NDispatched(w) : \A c \in 1..Len(settings[w]) :
        LET ev == fetched[w][i]
            OnC(e) == e.ev = i /\ e.sink = c
            out == SelectSeq(emitted[w], OnC)
        IN  (ev.type = "KEY" /\ ev.value \in {0, 1} /\ ev.code \in DOMAIN settings[w][c])
            => /\ Len(out) = 1
               /\ out[1].type = "KEY"
               /\ out[1].code = settings[w][c][ev.code]
               /\ out[1].value = ev.value

\* C2: a worker that has returned an I/O error met after its grab succeeded
\* (creating the passthrough keyboard, fetching, emitting) has called ungrab
\* for that grab.
C2_UngrabOnIoError ==
    \A w \in Sessions :
        (wpc[w] = "done" /\ result[w] \in {"err_kbd", "err_fetch", "err_emit"})
        => ungrabs[w] = grabs[w]

\* C3: ungrab is never called more often than grab has succeeded, a worker
\* grabs at most once, and a worker that left through cancellation (it
\* returned Ok) has grabbed once and called ungrab once, and holds no grab.
C3_UngrabOncePerGrab ==
    \A w \in Sessions :
        /\ ungrabs[w] <= grabs[w]
        /\ grabs[w] <= 1
        /\ wpc[w] \in {"while", "select", "fetch", "dispatch", "ungrab"}
           => grabs[w] = 1 /\ ungrabs[w] = 0
        /\ result[w] = "ok"
           => grabs[w] = 1 /\ ungrabs[w] = 1 /\ grabbedBy # w

\* C3 witness: a worker cancelled before it ever fetched an event has
\* returned Ok with its one grab released by its one ungrab
C3_Witness ==
    \E w \in Sessions :
        /\ wpc[w] = "done" /\ result[w] = "ok" /\ fetched[w] = <<>>
        /\ grabs[w] = 1 /\ ungrabs[w] = 1

\* C4: whenever a worker is inside the dispatch loop while the running flag
\* is cleared by stop_mapping (no signal has been delivered), it eventually
\* leaves the loop (or the flag is set again), also when the keyboard produces
\* no further event.
C4_CancelObserved ==
    \A w \in Sessions :
        (/\ wpc[w] \in LoopPcs
         /\ ~running
         /\ \A v \in Sessions : bpc[v] \in {"none", "waiting"})
        ~> (wpc[w] \notin LoopPcs \/ running)

\* C5: once a stop_mapping call made after a session's start has returned and
\* the session's worker has run as far as it can without new input (it has
\* returned, or it waits in fetch_events on an empty queue), the worker does
\* not hold the grab.
C5_StopReleasesDevice ==
    \A w \in stopRet :
        (wpc[w] = "done" \/ (wpc[w] = "fetch" /\ devq[w] = <<>>))
        => grabbedBy # w

\* C6: in every session, the dispatched key events whose key is in no
\* controller's mapping are on the keyboard sink one for one, with the same
\* code and value and in the same order, and no controller emission is
\* caused by such an event.
C6_PassthroughVerbatimInOrder ==
    \A w \in Sessions :
        LET Unclaimed(ev) == ev.type = "KEY" /\ ev.code \notin AnyMappingKeys
            OnKbd(e) == e.sink = 0 /\ Unclaimed(e)
            src == SelectSeq(SubSeq(fetched[w], 1, NDispatched(w)), Unclaimed)
            kbd == SelectSeq(emitted[w], OnKbd)
        IN  /\ Len(kbd) = Len(src)
            /\ \A j \in 1..Len(src) :
                  /\ kbd[j].code = src[j].code
                  /\ kbd[j].value = src[j].value
                  /\ fetched[w][kbd[j].ev] = src[j]
            /\ \A j \in 1..Len(emitted[w]) :
                  emitted[w][j].sink # 0
                  => ~Unclaimed(fetched[w][emitted[w][j].ev])

\* C6 witness: press(Z) then release(Z), Z in no mapping, have been dispatched
\* and are the two entries of the session's log, both on the keyboard sink
C6_Witness ==
    \E w \in Sessions :
        /\ "KEY_Z" \notin AnyMappingKeys
        /\ NDispatched(w) = 2
        /\ fetched[w] = << [type |-> "KEY", code |-> "KEY_Z", value |-> 1],
                           [type |-> "KEY", code |-> "KEY_Z", value |-> 0] >>
        /\ Untagged(emitted[w]) = << Emission(0, "KEY", "KEY_Z", 1),
                                     Emission(0, "KEY", "KEY_Z", 0) >>

\* C7: a dispatched key event whose key is in the mapping of some controller
\* of the session causes no emission on the keyboard sink.
C7_ClaimedKeyNotOnKeyboard ==
    \A w \in Sessions : \A i \in 1..NDispatched(w) :
        (/\ fetched[w][i].type = "KEY"
         /\ \E c \in 1..Len(settings[w]) : fetched[w][i].code \in DOMAIN settings[w][c])
        => \A j \in 1..Len(emitted[w]) :
              ~(emitted[w][j].ev = i /\ emitted[w][j].sink = 0)

\* C8: a dispatched key event whose key is in the mappings of two controllers
\* of the session causes, on each of the two, an emission of that controller's
\* own target button with the event's value.
C8_FanOutToBoth ==
    \A w \in Sessions : \A i \in 1..NDispatched(w) :
        \A c1, c2 \in 1..Len(settings[w]) :
            (/\ c1 # c2
             /\ fetched[w][i].type = "KEY"
             /\ fetched[w][i].code \in DOMAIN settings[w][c1]
             /\ fetched[w][i].code \in DOMAIN settings[w][c2])
            => \E j \in 1..Len(emitted[w]) :
                  /\ emitted[w][j].ev = i
                  /\ emitted[w][j].sink = c1
                  /\ emitted[w][j].code = settings[w][c1][fetched[w][i].code]
                  /\ emitted[w][j].value = fetched[w][i].value

\* C9: every dispatched event of a session is routed as the state at its
\* start_mapping call routes it: by the mapped_keys and the key mappings of
\* that moment, whatever was registered or edited afterwards.
C9_SnapshotIsolation ==
    \A w \in Sessions : \A i \in 1..NDispatched(w) :
        Untagged(CausedBy(w, i))
            = DispatchEvent(fetched[w][i], startKeys[w], settings[w])

\* C10: a start_mapping call made while a worker of an earlier start is alive
\* returns an error (and so spawns nothing).
C10_StartWhileRunningFails ==
    (lastStart.called /\ lastStart.busy) => ~lastStart.ok

\* C11: as long as no controller is registered, every start_mapping call has
\* failed and nothing has changed: the running flag is false, no worker and
\* no signal bridge has been spawned, no handle is open, nothing is grabbed.
C11_NoControllersStartFails ==
    controllers = <<>>
    => /\ lastStart.called => ~lastStart.ok
       /\ ~running
       /\ nsessions = 0
       /\ grabbedBy = 0
       /\ \A w \in Sessions :
             wpc[w] = "none" /\ bpc[w] = "none" /\ grabs[w] = 0

\* C11 witness: start_mapping has been called with no controller registered
C11_Witness ==
    controllers = <<>> /\ lastStart.called /\ ~lastStart.ok /\ ~running

\* C12: when the worker of the latest start_mapping call has ended because
\* opening or grabbing the device failed, the running flag is false and that
\* start_mapping call has returned the error.
C12_AcquisitionFailureToIdle ==
    \A w \in Sessions :
        (w = nsessions /\ wpc[w] = "done" /\ result[w] \in {"err_open", "err_grab"})
        => (~running /\ ~lastStart.ok)

\* C13: a delivered termination signal makes the bridge clear the running
\* flag, and a worker that is inside the dispatch loop once the bridge has
\* cleared the flag eventually returns with the device released (unless a
\* later start sets the flag again).
C13_SignalCancels ==
    \A w \in Sessions :
        /\ (bpc[w] = "signalled") ~> (bpc[w] \in {"cleared", "done"})
        /\ (bpc[w] \in {"cleared", "done"} /\ ~running /\ wpc[w] \in LoopPcs)
           ~> ((wpc[w] = "done" /\ grabbedBy # w) \/ running)

\* C14: every step of a stop_mapping call (clearing the flag, returning after
\* the sleep) leaves the running flag false and changes nothing else of the
\* mapper, of any thread or of the device; so a stop on a session that never
\* started or is already stopped is a no-op, and stop;stop equals stop.
C14_StopIdempotent ==
    [][ (ctl' # ctl)
        => /\ running' = FALSE
           /\ UNCHANGED << controllers, mapped_keys, nsessions, lastStart,
                           startKeys, wrkVars, devVars, sigVars >> ]_vars

\* C14 witness: two stop_mapping calls have been made and have returned on a
\* mapper on which start_mapping was never called (the only inputs so far)
C14_Witness ==
    /\ ninputs >= 2 /\ ctl = "idle" /\ ~running
    /\ controllers = <<>> /\ ~lastStart.called /\ nsessions = 0

\* C15: at most one worker has the device open and has not returned.
C15_AtMostOneWorker ==
    Cardinality({w \in Sessions : wpc[w] \in OpenPcs}) <= 1

C20_NoEventSwallowed ==
    \A w \in Sessions : \A i \in 1..NDispatched(w) :
        LET out == CausedBy(w, i)
            OnKbd(e) == e.sink = 0
            OnCtl(e) == e.sink # 0
        IN  IF fetched[w][i].type = "KEY"
            THEN \/ Len(SelectSeq(out, OnCtl)) >= 1
                 \/ Len(SelectSeq(out, OnKbd)) = 1
            ELSE Len(SelectSeq(out, OnKbd)) = 1

\* C16: in the program as main drives it, whenever main is at the menu or
\* inside the interactive binding, and in particular whenever the capture
\* thread exists or has the device open, no worker thread is alive.
C16_CaptureNotWhileWorkerAlive ==
    (ctl \in {"idle", "bind", "capture"} \/ cpc \in {"spawned", "fetch"})
    => \A w \in Sessions : ~Alive(w)

\* C16 witness: the capture thread has the device open after a session has
\* been started, stopped and joined
C16_Witness ==
    /\ cpc = "fetch"
    /\ nsessions >= 1
    /\ \A w \in 1..nsessions : wpc[w] = "done" /\ w \in stopRet

\* C18: the capture thread sends a key only when the batch it has read holds
\* a key event with value 1, and then it sends the code of the first such
\* event of the batch and ends; a batch without one (releases, auto-repeats,
\* non-key events) is skipped whole and the thread goes on reading.
C18_CaptureFirstPress ==
    [][ /\ (ckey' # <<>> /\ ckey' # ckey)
           => /\ cpc = "fetch" /\ cpc' = "done" /\ cres' = "ok"
              /\ \E j \in 1..Len(cq) :
                    /\ cq[j].type = "KEY" /\ cq[j].value = 1
                    /\ \A i \in 1..(j - 1) :
                          ~(cq[i].type = "KEY" /\ cq[i].value = 1)
                    /\ ckey' = << cq[j].code >>
        /\ (cpc = "fetch" /\ cq # <<>> /\ cq' = <<>> /\ cres' # "err")
           => IF \E j \in 1..Len(cq) : cq[j].type = "KEY" /\ cq[j].value = 1
              THEN ckey' # <<>> /\ cpc' = "done"
              ELSE ckey' = <<>> /\ cpc' = "fetch" /\ cskip' = cskip + Len(cq)
      ]_vars

\* C18 witness: capture_key's thread has sent KEY_Z and ended after it read
\* and skipped two events
C18_Witness ==
    ckey = << "KEY_Z" >> /\ cpc = "done" /\ cres = "ok" /\ cskip = 2

\* C19: throughout and after an interactive binding, the controller's
\* key_mapping holds exactly the keys capture_key has returned, each mapped to
\* the button of the last prompt for which it was returned; it has no more
\* entries than prompts answered, so at most 15; and the controller main
\* registers after the last prompt carries exactly this mapping.
C19_BindingLastPromptWins ==
    /\ prompt \in 0..(Len(ButtonPrompts) + 1)
    /\ Len(ButtonPrompts) = 15
    /\ DOMAIN binding = {k \in PhysKeys : lastPrompt[k] > 0}
    /\ \A k \in DOMAIN binding : binding[k] = ButtonPrompts[lastPrompt[k]]
    /\ Cardinality(DOMAIN binding) <= Len(ButtonPrompts)
    /\ prompt > 0 => Cardinality(DOMAIN binding) <= prompt - 1
    /\ (prompt = 0 /\ ctl # "exit" /\ Len(controllers) >= 2)
       => controllers[Len(controllers)] = binding

\* C19 witness: all 15 prompts are answered; KEY_Z was pressed for the third
\* prompt and for an earlier one, KEY_W for every later prompt: two entries,
\* each with the button of its last prompt
C19_Witness ==
    /\ ctl = "bind"
    /\ prompt = Len(ButtonPrompts) + 1
    /\ lastPrompt["KEY_Z"] = 3 /\ lastPrompt["KEY_W"] = 15
    /\ binding["KEY_Z"] = "BTN_NORTH" /\ binding["KEY_W"] = "BTN_DPAD_RIGHT"

\* C21: mapped_keys is the union of the source keys of the registered
\* controllers' key mappings, whatever was registered or inserted so far; so
\* the set a session starts with is the union of the keys of its snapshot
\* mappings.
C21_MappedKeysIsUnion ==
    /\ mapped_keys = UNION {DOMAIN controllers[i] : i \in 1..Len(controllers)}
    /\ \A w \in 1..nsessions :
          startKeys[w] = UNION {DOMAIN settings[w][c] : c \in 1..Len(settings[w])}

\* C22: a worker of a session after whose start a stop_mapping call has
\* returned never again finds the running flag true: it does not pass the
\* loop condition into select, and it does not go round from the tick branch.
C22_StoppedWorkerExits ==
    [][ \A w \in stopRet :
           /\ ~(wpc[w] = "while" /\ wpc'[w] = "select")
           /\ ~(wpc[w] = "select" /\ wpc'[w] = "while") ]_vars

\* C23: under main, whenever main waits in "mapping active" and the worker of
\* that session has left the loop and returned Ok after the signal bridge
\* cleared the flag, main eventually leaves the wait, without a Delete key
\* press being needed (one would still be accepted).
C23_MainLeavesWaitAfterSignal ==
    \A w \in Sessions :
        (/\ ctl = "wait" /\ w = nsessions
         /\ wpc[w] = "done" /\ result[w] = "ok"
         /\ bpc[w] \in {"cleared", "done"}
         /\ ninputs < MaxInputs)
        ~> (ctl # "wait")

\* C24: at most one signal-bridge thread is alive, and none is alive while
\* the session is Idle (no call in progress, flag false, no worker alive).
C24_BridgeEndsWithSession ==
    LET alive == {w \in Sessions : bpc[w] \in {"waiting", "signalled", "cleared"}}
    IN  /\ Cardinality(alive) <= 1
        /\ (ctl = "idle" /\ ~running /\ \A w \in Sessions : ~Alive(w))
           => alive = {}

====
